---- MODULE Spec2Model ----
(***************************************************************************)
(* Batch patch engine of server/api/text/text.controller.js: editText      *)
(* runs the operations of one request through async.mapLimit (limit 10),   *)
(* counts results in a status record kept in memory-cache for 5 minutes,   *)
(* and publishes one socket event per result when the batch completes.     *)
(*                                                                         *)
(* JavaScript runs one event-loop turn at a time, to completion.  The      *)
(* variable turn says which turn is executing: "submit" (the body of       *)
(* editText), "callback" (a store callback and what it starts), or "idle"  *)
(* (between turns: store callbacks, timers and polls can come in).         *)
(*                                                                         *)
(* Encoding of JavaScript values:                                          *)
(*   - a string field that is missing is the empty string (both falsy);    *)
(*   - a path is the sequence of its tokens, "/" being a token, so         *)
(*     '/classes' is <<"/", "classes">>;                                   *)
(*   - a value is a record with its type and the fields the code reads.    *)
(***************************************************************************)
EXTENDS Integers, Sequences, FiniteSets, TLC

\* ------------------------------------------------------------ bounds
\* longest batch whose operations are drawn freely from SampleOps
MaxOps == 2
\* longest batch of store-bound operations (one more than the limit)
MaxBurst == 11

\* ------------------------------------------------------------ constants
\* async.mapLimit(patchoperations, 10, ...)
Limit == 10
\* 5 * MINUTE, in minutes
TTL == 5

STATUS == [RUNNING |-> "running", COMPLETE |-> "complete", ERROR |-> "error"]

\* ------------------------------------------------------------ values
ClassesPath == <<"/", "classes">>
MetadataPath == <<"/", "metadata">>

NoValue == [type |-> "undefined", items |-> <<>>, value |-> "", metadata |-> ""]
ArrayValue(items) == [type |-> "array", items |-> items, value |-> "", metadata |-> ""]
ObjectValue(v, m) == [type |-> "object", items |-> <<>>, value |-> v, metadata |-> m]

\* an element of a /classes value array
Cls(idtype, id) == [type |-> "object", idtype |-> idtype, id |-> id]

PatchOperation(op, path, value) == [op |-> op, path |-> path, value |-> value]
NoOperation == PatchOperation("", <<>>, NoValue)

\* the operations batches are built from, one per way through the router
AddOk == PatchOperation("add", ClassesPath, ArrayValue(<<Cls("string", "c1"), Cls("string", "c2")>>))
RemoveOk == PatchOperation("remove", ClassesPath, ArrayValue(<<Cls("string", "c1")>>))
AddBadId == PatchOperation("add", ClassesPath, ArrayValue(<<Cls("string", "c1"), Cls("number", "7")>>))
AddNoValue == PatchOperation("add", ClassesPath, NoValue)
ClassesBadOp == PatchOperation("replace", ClassesPath, ArrayValue(<<Cls("string", "c1")>>))
ReplaceOk == PatchOperation("replace", MetadataPath, ObjectValue("x", "{}"))
ReplaceNoValue == PatchOperation("replace", MetadataPath, NoValue)
MetadataBadOp == PatchOperation("add", MetadataPath, ObjectValue("x", "{}"))
Bogus == PatchOperation("bogus", <<"/", "nope">>, NoValue)

SampleOps == {AddOk, RemoveOk, AddBadId, AddNoValue, ClassesBadOp,
              ReplaceOk, ReplaceNoValue, MetadataBadOp, Bogus}

\* spec.md section 8, item 6
Scenario == <<AddOk, ReplaceOk, Bogus>>

StoreOps == <<AddOk, RemoveOk, ReplaceOk>>

\* ------------------------------------------------------------ pure functions
\* typeof cls.id === 'string', then the filter on truthiness
getClassesToPatch(values) ==
  LET getIds(cls) == IF cls.type = "object" /\ cls.idtype = "string" THEN cls.id ELSE ""
      mapped == [k \in 1..Len(values) |-> getIds(values[k])]
  IN  SelectSeq(mapped, LAMBDA m : m # "")

\* null is the empty record value NoValue
sanitizeMetadata(value) ==
  IF value.type # "undefined" /\ (value.value # "" \/ value.metadata # "")
  THEN ObjectValue(value.value, value.metadata)
  ELSE NoValue

\* values.map of something that is no array throws a TypeError
ThrowsTypeError(patchoperation) ==
  /\ patchoperation.path = ClassesPath
  /\ patchoperation.op \in {"add", "remove"}
  /\ patchoperation.value.type # "array"

\* ------------------------------------------------------------ outcomes
NoResult == [kind |-> "none", message |-> "", operation |-> NoOperation, shape |-> ""]
PatchError(message, operation) ==
  [kind |-> "PatchError", message |-> message, operation |-> operation, shape |-> ""]
StoreResult(shape) ==
  [kind |-> "result", message |-> "", operation |-> NoOperation, shape |-> shape]

NoCall == [fn |-> "none", ids |-> <<>>, metadata |-> NoValue]

\* ------------------------------------------------------------ state
VARIABLES
  batch,      \* patchoperations: the request's operations, in order
  store,      \* how the database behind db.* answers (its callbacks' err and result)
  details,    \* the status record {status, success, error} shared by all callbacks
  cacheHas,   \* memory-cache holds an entry under patchid (its value is details)
  cacheTtl,   \* minutes until that entry's expire time; -1 once the time has passed
  next,       \* mapLimit: index of the next operation to start
  running,    \* mapLimit: iterations started and not called back
  errored,    \* mapLimit: an iteration called back with an error
  finished,   \* mapLimit: the final callback has been called (it is called once)
  calls,      \* per operation, the db call issued for it
  results,    \* mapLimit: the result array
  events,     \* what socketUtil.send was called with, in order
  acks,       \* number of times responses.accepted was called
  turn,       \* "submit", "callback", "idle", or "down" after an uncaught exception
  polled,     \* the last answer of patchStatus
  notified,   \* handlePatchResponse has gone through data.forEach
  puts        \* number of calls of cache.put made for patchid

vars == <<batch, store, details, cacheHas, cacheTtl, next, running, errored,
          finished, calls, results, events, acks, turn, polled, notified, puts>>

N == Len(batch)
InFlight(i) == calls[i] # NoCall /\ results[i] = NoResult
Threw(i) == i < next /\ calls[i] = NoCall /\ results[i] = NoResult
NumInFlight == Cardinality({i \in 1..N : InFlight(i)})
Settled(i) == results[i] # NoResult
NumSettled == Cardinality({i \in 1..N : Settled(i)})

\* ------------------------------------------------------------ initial states
RECURSIVE SeqsUpTo(_, _)
SeqsUpTo(S, n) ==
  IF n = 0 THEN {<<>>}
  ELSE LET shorter == SeqsUpTo(S, n - 1)
       IN  shorter \cup {Append(q, x) : q \in {r \in shorter : Len(r) = n - 1}, x \in S}

MixedBatches == SeqsUpTo(SampleOps, MaxOps) \cup {Scenario}

Burst(n) == [k \in 1..n |-> StoreOps[(k % 3) + 1]]
BurstBatches == {Burst(n) : n \in 0..MaxBurst} \cup {<<Bogus, AddBadId>> \o Burst(n) : n \in 0..MaxBurst}

Shapes == {"classes", "metadata", "neither"}
AnyStore == [outcome |-> "any", shape |-> "any"]
StubStores == [outcome : {"ok", "err"}, shape : {"classes", "neither"}]

\* the state editText has built when it calls async.mapLimit
Started(b, st) ==
  /\ batch = b
  /\ store = st
  /\ details = [status |-> STATUS.RUNNING, success |-> 0, error |-> 0]
  /\ cacheHas = TRUE
  /\ cacheTtl = TTL
  /\ next = 1
  /\ running = 0
  /\ errored = FALSE
  /\ finished = FALSE
  /\ calls = [i \in 1..Len(b) |-> NoCall]
  /\ results = [i \in 1..Len(b) |-> NoResult]
  /\ events = <<>>
  /\ acks = 0
  /\ turn = "submit"
  /\ polled = [code |-> 0, body |-> details]
  /\ notified = FALSE
  /\ puts = 1

Init == \E b \in MixedBatches : Started(b, AnyStore)
InitBurst == \E b \in BurstBatches, st \in StubStores : Started(b, st)

\* ------------------------------------------------------------ helpers
\* cache.put without a time: the entry keeps the expiry it had
CachePutKeepsExpiry ==
  /\ cacheHas' = TRUE
  /\ cacheTtl' = cacheTtl
  /\ puts' = puts + 1

\* cache.put(patchid, details, 5 * MINUTE): the entry is (re)created and its
\* timer restarted
CachePut ==
  /\ cacheHas' = TRUE
  /\ cacheTtl' = TTL
  /\ puts' = puts + 1

\* operationHandler with the success count raised outside the else branch
operationHandlerCountsTwice(patchoperation, patchdetails, err, result) ==
  IF err # ""
  THEN [details |-> [patchdetails EXCEPT !.error = @ + 1, !.success = @ + 1],
        err |-> FALSE,
        output |-> PatchError(err, patchoperation)]
  ELSE [details |-> [patchdetails EXCEPT !.success = @ + 1],
        err |-> FALSE,
        output |-> result]

\* operationHandler with both branches raising the error count
operationHandlerCountsError(patchoperation, patchdetails, err, result) ==
  IF err # ""
  THEN [details |-> [patchdetails EXCEPT !.error = @ + 1],
        err |-> FALSE,
        output |-> PatchError(err, patchoperation)]
  ELSE [details |-> [patchdetails EXCEPT !.error = @ + 1],
        err |-> FALSE,
        output |-> result]

\* operationHandler handing the error on to mapLimit's callback
operationHandlerPassesErr(patchoperation, patchdetails, err, result) ==
  IF err # ""
  THEN [details |-> [patchdetails EXCEPT !.error = @ + 1],
        err |-> TRUE,
        output |-> PatchError(err, patchoperation)]
  ELSE [details |-> [patchdetails EXCEPT !.success = @ + 1],
        err |-> FALSE,
        output |-> result]

\* handleResult, the callback operationHandler returns: what it makes of
\* (err, result), err being the error's message or "" for null.  It passes
\* null as the error to mapLimit's callback, whatever err is.
operationHandler(patchoperation, patchdetails, err, result) ==
  IF err # ""
  THEN [details |-> [patchdetails EXCEPT !.error = @ + 1],
        err |-> FALSE,
        output |-> PatchError(err, patchoperation)]
  ELSE [details |-> [patchdetails EXCEPT !.success = @ + 1],
        err |-> FALSE,
        output |-> result]

\* the test off by one
AdmitsOneMore == running <= Limit /\ ~errored

\* mapLimit's test before it starts another iteration
Admits == running < Limit /\ ~errored

\* mapLimit calls its final callback when nothing is left to start and nothing
\* runs, or at once when an iteration reports an error
FinalDue == ~finished /\ (errored \/ (next > N /\ running = 0))

\* the final callback has set the status and has its events still to send
NotifyDue == finished /\ ~notified

\* a turn of the engine is executing and mapLimit's loop takes the next operation
Dispatching ==
  /\ turn \in {"submit", "callback"}
  /\ ~FinalDue
  /\ ~NotifyDue
  /\ Admits
  /\ next <= N

\* the loop has nothing more to do in this turn
LoopOver ==
  /\ turn \in {"submit", "callback"}
  /\ ~FinalDue
  /\ ~NotifyDue
  /\ ~(Admits /\ next <= N)

\* the iteration of operation i called db.* and returned; the store will call back
IssueCall(i, call) ==
  /\ calls' = [calls EXCEPT ![i] = call]
  /\ running' = running + 1
  /\ next' = next + 1
  /\ UNCHANGED <<batch, store, details, cacheHas, cacheTtl, errored, finished,
                 results, events, acks, turn, polled, notified, puts>>

\* the iteration of operation i called handleResult(err) before it returned
FailNow(i, message) ==
  LET h == operationHandler(batch[i], details, message, NoResult)
  IN  /\ details' = h.details
      /\ CachePut
      /\ results' = [results EXCEPT ![i] = h.output]
      /\ errored' = (errored \/ h.err)
      /\ next' = next + 1
      /\ UNCHANGED <<batch, store, running, finished, calls, events, acks, turn, polled, notified>>

\* the iteration of operation i threw: mapLimit has counted it as running and
\* never hears of it again.  Thrown out of editText, the exception ends the
\* request without a call of responses.accepted; thrown out of a store
\* callback, it is uncaught, and the process goes on or goes down.
Throw(i) ==
  /\ running' = running + 1
  /\ next' = next + 1
  /\ turn' \in (IF turn = "submit" THEN {"idle"} ELSE {"idle", "down"})
  /\ UNCHANGED <<batch, store, details, cacheHas, cacheTtl, errored, finished,
                 calls, results, events, acks, polled, notified, puts>>

\* ------------------------------------------------------------ actions
\* patchTextClasses without the comparison of lengths: the ids that resolve
\* go to the store
PatchTextClassesPartial ==
  /\ Dispatching
  /\ batch[next].path = ClassesPath
  /\ LET patchoperation == batch[next]
         ids == getClassesToPatch(patchoperation.value.items)
     IN  CASE patchoperation.op = "add" ->
                IF ThrowsTypeError(patchoperation) THEN Throw(next)
                ELSE IssueCall(next, [fn |-> "addClassesToText", ids |-> ids, metadata |-> NoValue])
           [] patchoperation.op = "remove" ->
                IF ThrowsTypeError(patchoperation) THEN Throw(next)
                ELSE IssueCall(next, [fn |-> "removeClassesFromText", ids |-> ids, metadata |-> NoValue])
           [] OTHER -> FailNow(next, "Unsupported operation")

\* patchTextMetadata without the switch on op
PatchTextMetadataAnyOp ==
  /\ Dispatching
  /\ batch[next].path = MetadataPath
  /\ LET patchoperation == batch[next]
         metadata == sanitizeMetadata(patchoperation.value)
     IN  IF metadata = NoValue
         THEN FailNow(next, "Invalid value")
         ELSE IssueCall(next, [fn |-> "updateTextMetadata", ids |-> <<>>, metadata |-> metadata])

\* applyPatch, path '/classes': patchTextClasses
PatchTextClasses ==
  /\ Dispatching
  /\ batch[next].path = ClassesPath
  /\ LET patchoperation == batch[next]
         ids == getClassesToPatch(patchoperation.value.items)
     IN  CASE patchoperation.op = "add" ->
                IF ThrowsTypeError(patchoperation) THEN Throw(next)
                ELSE IF Len(ids) # Len(patchoperation.value.items)
                     THEN FailNow(next, "Invalid value array")
                     ELSE IssueCall(next, [fn |-> "addClassesToText", ids |-> ids, metadata |-> NoValue])
           [] patchoperation.op = "remove" ->
                IF ThrowsTypeError(patchoperation) THEN Throw(next)
                ELSE IF Len(ids) # Len(patchoperation.value.items)
                     THEN FailNow(next, "Invalid value array")
                     ELSE IssueCall(next, [fn |-> "removeClassesFromText", ids |-> ids, metadata |-> NoValue])
           [] OTHER -> FailNow(next, "Unsupported operation")

\* applyPatch, path '/metadata': patchTextMetadata
PatchTextMetadata ==
  /\ Dispatching
  /\ batch[next].path = MetadataPath
  /\ LET patchoperation == batch[next]
         metadata == sanitizeMetadata(patchoperation.value)
     IN  CASE patchoperation.op = "replace" ->
                IF metadata = NoValue
                THEN FailNow(next, "Invalid value")
                ELSE IssueCall(next, [fn |-> "updateTextMetadata", ids |-> <<>>, metadata |-> metadata])
           [] OTHER -> FailNow(next, "Unsupported operation")

\* the branch without its details.error++
UnsupportedPathUncounted ==
  /\ Dispatching
  /\ batch[next].path \notin {ClassesPath, MetadataPath}
  /\ results' = [results EXCEPT ![next] = PatchError("Unsupported operation", batch[next])]
  /\ next' = next + 1
  /\ UNCHANGED <<batch, store, details, cacheHas, cacheTtl, running, errored, finished,
                 calls, events, acks, turn, polled, notified, puts>>

\* the branch counting the error and then reporting it through getCallback()
\* as the other branches do
UnsupportedPathThroughHandler ==
  /\ Dispatching
  /\ batch[next].path \notin {ClassesPath, MetadataPath}
  /\ LET h == operationHandler(batch[next], [details EXCEPT !.error = @ + 1],
                               "Unsupported operation", NoResult)
     IN  /\ details' = h.details
         /\ results' = [results EXCEPT ![next] = h.output]
  /\ CachePut
  /\ next' = next + 1
  /\ UNCHANGED <<batch, store, running, errored, finished, calls, events, acks, turn, polled, notified>>

\* applyPatch, any other path: the error is counted here and handed to nextop
\* without a call of operationHandler, so without a cache.put
UnsupportedPath ==
  /\ Dispatching
  /\ batch[next].path \notin {ClassesPath, MetadataPath}
  /\ details' = [details EXCEPT !.error = @ + 1]
  /\ results' = [results EXCEPT ![next] = PatchError("Unsupported operation", batch[next])]
  /\ next' = next + 1
  /\ UNCHANGED <<batch, store, cacheHas, cacheTtl, running, errored, finished,
                 calls, events, acks, turn, polled, notified, puts>>

\* the store calls handleResult(err, result) for operation i
HandleResult(i, err, result) ==
  LET h == operationHandler(batch[i], details, err, result)
  IN  /\ turn = "idle"
      /\ InFlight(i)
      /\ details' = h.details
      /\ CachePut
      /\ results' = [results EXCEPT ![i] = h.output]
      /\ errored' = (errored \/ h.err)
      /\ running' = running - 1
      /\ turn' = "callback"
      /\ UNCHANGED <<batch, store, next, finished, calls, events, acks, polled, notified>>

StoreSuccess ==
  \E i \in 1..N, shape \in Shapes :
    /\ store.outcome \in {"ok", "any"}
    /\ store.shape \in {shape, "any"}
    /\ HandleResult(i, "", StoreResult(shape))

StoreFailure ==
  \E i \in 1..N :
    /\ store.outcome \in {"err", "any"}
    /\ HandleResult(i, "store error", NoResult)

\* ------------------------------------------------------------ events
textid == "text1"

socketMessageNameBuilder(operation) ==
  LET aspect == IF operation.path # <<>>
                THEN (IF Head(operation.path) = "/" THEN Tail(operation.path) ELSE operation.path)
                ELSE <<"unknown">>
      verb == IF operation.op # "" THEN operation.op ELSE "unknown"
  IN  aspect \o <<":">> \o <<verb>>

NoResponse == [id |-> "", error |-> NoResult, field |-> "null"]

\* the builder without its last branch: a response for every result
socketResponseBuilderNeverNull(id, data) ==
  IF data.kind = "PatchError"
  THEN [id |-> id, error |-> data,
        field |-> IF data.operation.value.type = "object" /\ data.operation.value.value # ""
                  THEN "value"
                  ELSE IF data.operation.value.type # "undefined" THEN "classes" ELSE "none"]
  ELSE IF data.shape = "classes" THEN [id |-> id, error |-> NoResult, field |-> "classes"]
  ELSE IF data.shape = "metadata" THEN [id |-> id, error |-> NoResult, field |-> "value"]
  ELSE [id |-> id, error |-> NoResult, field |-> "none"]

\* field says which of response.value and response.classes is set
socketResponseBuilder(id, data) ==
  IF data.kind = "PatchError"
  THEN [id |-> id, error |-> data,
        field |-> IF data.operation.value.type = "object" /\ data.operation.value.value # ""
                  THEN "value"
                  ELSE IF data.operation.value.type # "undefined" THEN "classes" ELSE "none"]
  ELSE IF data.shape = "classes" THEN [id |-> id, error |-> NoResult, field |-> "classes"]
  ELSE IF data.shape = "metadata" THEN [id |-> id, error |-> NoResult, field |-> "value"]
  ELSE NoResponse

\* data.forEach of handlePatchResponse: the sends it makes, in order
Published(data) ==
  LET send(result) == [name |-> <<"text", ":", "update", ":">> \o socketMessageNameBuilder(result.operation),
                       response |-> socketResponseBuilder(textid, result)]
      all == [k \in 1..Len(data) |-> send(data[k])]
  IN  SelectSeq(all, LAMBDA e : e.response # NoResponse)

\* the test of err inverted
TerminalStatusInverted(err) == IF err THEN STATUS.COMPLETE ELSE STATUS.ERROR

\* the status handlePatchResponse assigns
TerminalStatus(err) == IF err THEN STATUS.ERROR ELSE STATUS.COMPLETE

\* mapLimit's final callback, up to its cache.put
HandlePatchResponse ==
  /\ turn \in {"submit", "callback"}
  /\ FinalDue
  /\ finished' = TRUE
  /\ details' = [details EXCEPT !.status = TerminalStatus(errored)]
  /\ CachePut
  /\ UNCHANGED <<batch, store, next, running, errored, calls, results, events, acks,
                 turn, polled, notified>>

\* data.forEach placed ahead of the status assignment
PublishEventsFirst ==
  /\ turn \in {"submit", "callback"}
  /\ FinalDue
  /\ ~notified
  /\ notified' = TRUE
  /\ events' = events \o Published(SelectSeq(results, LAMBDA r : r # NoResult))
  /\ UNCHANGED <<batch, store, details, cacheHas, cacheTtl, next, running, errored,
                 finished, calls, results, acks, turn, polled, puts>>

\* handlePatchResponse, after its cache.put: data.forEach sends the events
PublishEvents ==
  /\ turn \in {"submit", "callback"}
  /\ NotifyDue
  /\ notified' = TRUE
  /\ events' = events \o Published(SelectSeq(results, LAMBDA r : r # NoResult))
  /\ UNCHANGED <<batch, store, details, cacheHas, cacheTtl, next, running, errored,
                 finished, calls, results, acks, turn, polled, puts>>

\* editText marking the batch as running once mapLimit has been called
AcceptedMarksRunning ==
  /\ turn = "submit"
  /\ LoopOver
  /\ details' = [details EXCEPT !.status = STATUS.RUNNING]
  /\ acks' = acks + 1
  /\ turn' = "idle"
  /\ UNCHANGED <<batch, store, cacheHas, cacheTtl, next, running, errored,
                 finished, calls, results, events, polled, notified, puts>>

\* async.mapLimit has returned to editText, which answers 202 with the locator
Accepted ==
  /\ turn = "submit"
  /\ LoopOver
  /\ acks' = acks + 1
  /\ turn' = "idle"
  /\ UNCHANGED <<batch, store, details, cacheHas, cacheTtl, next, running, errored,
                 finished, calls, results, events, polled, notified, puts>>

\* the store callback's turn ends
CallbackReturn ==
  /\ turn = "callback"
  /\ LoopOver
  /\ turn' = "idle"
  /\ UNCHANGED <<batch, store, details, cacheHas, cacheTtl, next, running, errored,
                 finished, calls, results, events, acks, polled, notified, puts>>

\* ------------------------------------------------------------ cache and polling
\* a minute passes
Tick ==
  /\ turn = "idle"
  /\ cacheHas
  /\ cacheTtl >= 0
  /\ cacheTtl' = cacheTtl - 1
  /\ UNCHANGED <<batch, store, details, cacheHas, next, running, errored, finished,
                 calls, results, events, acks, turn, polled, notified, puts>>

\* memory-cache's timer of the entry fires, no sooner than its expire time
Expire ==
  /\ turn = "idle"
  /\ cacheHas
  /\ cacheTtl <= 0
  /\ cacheHas' = FALSE
  /\ UNCHANGED <<batch, store, details, cacheTtl, next, running, errored, finished,
                 calls, results, events, acks, turn, polled, notified, puts>>

\* patchStatus: cache.get returns the value while the expire time has not
\* passed, and else drops the entry
PatchStatus ==
  /\ turn = "idle"
  /\ IF cacheHas /\ cacheTtl >= 0
     THEN /\ polled' = [code |-> 200, body |-> details]
          /\ UNCHANGED cacheHas
     ELSE /\ polled' = [code |-> 404, body |-> polled.body]
          /\ cacheHas' = FALSE
  /\ UNCHANGED <<batch, store, details, cacheTtl, next, running, errored, finished,
                 calls, results, events, acks, turn, notified, puts>>

\* ------------------------------------------------------------ specifications
Engine ==
  \/ PatchTextClasses
  \/ PatchTextMetadata
  \/ UnsupportedPath
  \/ StoreSuccess
  \/ StoreFailure
  \/ HandlePatchResponse
  \/ PublishEvents
  \/ Accepted
  \/ CallbackReturn

Next ==
  \/ PatchTextClasses
  \/ PatchTextMetadata
  \/ UnsupportedPath
  \/ StoreSuccess
  \/ StoreFailure
  \/ HandlePatchResponse
  \/ PublishEvents
  \/ Accepted
  \/ CallbackReturn
  \/ Tick
  \/ Expire
  \/ PatchStatus

Spec == Init /\ [][Next]_vars

\* every turn of the engine that can run does run, and every store call is
\* answered
FairSpec == Init /\ [][Next]_vars /\ WF_vars(Engine)

\* batches long enough to fill the limit, against stub stores
NextBurst ==
  \/ PatchTextClasses
  \/ PatchTextMetadata
  \/ UnsupportedPath
  \/ StoreSuccess
  \/ StoreFailure
  \/ HandlePatchResponse
  \/ PublishEvents
  \/ Accepted
  \/ CallbackReturn

SpecBurst == InitBurst /\ [][NextBurst]_vars

\* ------------------------------------------------------------ properties
Terminal == details.status \in {STATUS.COMPLETE, STATUS.ERROR}
Counted == details.success + details.error
Unrecognized(i) == batch[i].path \notin {ClassesPath, MetadataPath}
\* the router hands the operation to the store
StoreBound(patchoperation) ==
  \/ /\ patchoperation.path = ClassesPath
     /\ patchoperation.op \in {"add", "remove"}
     /\ patchoperation.value.type = "array"
     /\ Len(getClassesToPatch(patchoperation.value.items)) = Len(patchoperation.value.items)
  \/ /\ patchoperation.path = MetadataPath
     /\ patchoperation.op = "replace"
     /\ sanitizeMetadata(patchoperation.value) # NoValue
\* no turn is executing and no store call is outstanding
Quiescent == turn = "idle" /\ NumInFlight = 0

\* C1: under FairSpec (every started store call calls back, every turn runs
\* on), every batch eventually has success + error = N.
C1_EventuallyAllCounted == <>(Counted = N)

\* C2: success + error never exceeds N, equals the number of operations that
\* have an outcome, and equals N in every state with a terminal status.
C2_CountsWithinBatch ==
  /\ Counted <= N
  /\ Counted = NumSettled
  /\ Terminal => Counted = N

C2_Witness ==
  /\ details.status = STATUS.COMPLETE
  /\ details.success >= 1
  /\ details.error >= 1

\* C3 as stated: the batch of spec.md section 8 item 6, its two store calls
\* accepted, reads status error, success 2, error 1 once all have settled.
C3_ScenarioReadsError ==
  (/\ batch = Scenario
   /\ turn = "idle"
   /\ NumSettled = N
   /\ results[1].kind = "result"
   /\ results[2].kind = "result")
  => (details.status = STATUS.ERROR /\ details.success = 2 /\ details.error = 1)

\* C3 amended: that batch reads status complete, success 2, error 1 once all
\* have settled.
C3_ScenarioReadsComplete ==
  (/\ batch = Scenario
   /\ turn = "idle"
   /\ NumSettled = N
   /\ results[1].kind = "result"
   /\ results[2].kind = "result")
  => (details.status = STATUS.COMPLETE /\ details.success = 2 /\ details.error = 1)

C3_Witness ==
  /\ batch = Scenario
  /\ turn = "idle"
  /\ NumSettled = N
  /\ results[1].kind = "result"
  /\ results[2].kind = "result"
  /\ results[3].kind = "PatchError"

\* C4: the status changes only away from running: a terminal status is never
\* replaced, whatever completes, expires or is put again.
C4_StatusOnlyLeavesRunning ==
  [][details.status # STATUS.RUNNING => details'.status = details.status]_vars

C4_Witness ==
  /\ details.status = STATUS.COMPLETE
  /\ N >= 1
  /\ ~cacheHas
  /\ polled.code = 404

\* C5: at most Limit (10) store calls of a batch are outstanding.
C5_AtMostLimitInFlight == NumInFlight <= Limit

C5_Witness ==
  /\ NumInFlight = Limit
  /\ next <= N

\* C6 as stated: when responses.accepted is called, nothing has been counted
\* and the status is running.
C6_AckBeforeAnySettles ==
  [][acks' # acks =>
       /\ details.success = 0
       /\ details.error = 0
       /\ details.status = STATUS.RUNNING]_vars

\* C6 amended: when responses.accepted is called, no operation that reached
\* the store has settled (success = 0); the operations that failed without a
\* store call have settled and are counted in error; the status is running
\* exactly when a store call is outstanding, and already terminal otherwise.
C6_AckBeforeStoreSettles ==
  [][acks' # acks =>
       /\ details.success = 0
       /\ details.error = NumSettled
       /\ \A i \in 1..N : Settled(i) => (calls[i] = NoCall /\ ~StoreBound(batch[i]))
       /\ \A i \in 1..N : (i < next /\ ~StoreBound(batch[i])) => Settled(i)
       /\ (details.status = STATUS.RUNNING) <=> (NumInFlight > 0)]_vars

C6_Witness ==
  /\ acks = 1
  /\ details.success = 0
  /\ details.error >= 1
  /\ details.error = NumSettled
  /\ NumInFlight >= 1
  /\ details.status = STATUS.RUNNING

\* C7: once editText has returned, responses.accepted has been called exactly
\* once, whatever the operations are.
C7_AlwaysAcknowledged == turn # "submit" => acks = 1

C9_EveryOperationSettles ==
  /\ finished => NumSettled = N
  /\ Quiescent => \A i \in 1..N : Settled(i)

\* C10: an operation with an unrecognized path, when applyPatch takes it,
\* gets a PatchError carrying it and raises error by one and success not at
\* all, leaving the other outcomes alone; every outcome is decided by its own
\* operation, and the counters are the numbers of outcomes of each kind.
C10_UnrecognizedPathIsOneError ==
  /\ [](/\ \A i \in 1..N : (Unrecognized(i) /\ Settled(i))
                 => results[i] = PatchError("Unsupported operation", batch[i])
        /\ \A i \in 1..N : Settled(i) =>
                 (results[i].kind = "result" => StoreBound(batch[i]))
        /\ details.error = Cardinality({i \in 1..N : results[i].kind = "PatchError"})
        /\ details.success = Cardinality({i \in 1..N : results[i].kind = "result"}))
  /\ [][\A i \in 1..N : (Unrecognized(i) /\ ~Settled(i) /\ results'[i] # NoResult)
            => /\ details'.error = details.error + 1
               /\ details'.success = details.success
               /\ \A j \in 1..N : j # i => results'[j] = results[j]]_vars

C10_Witness ==
  /\ \E i \in 1..N : Unrecognized(i) /\ Settled(i)
  /\ \E j \in 1..N : ~Unrecognized(j) /\ results[j].kind = "result"
  /\ details.error = 1
  /\ details.success = 1

\* C11: patchStatus returns the record at every time less than 5 minutes
\* after the last cache.put and reports not-found at every time more than 5
\* minutes after it (at the 5 minutes exactly the entry's timer may or may
\* not have fired); every cache.put leaves the entry present with the full 5
\* minutes ahead of it.
C11_RetrievableForTtl ==
  /\ [](cacheTtl > 0 => cacheHas)
  /\ [][polled' # polled =>
          /\ cacheTtl > 0 => (polled'.code = 200 /\ polled'.body = details)
          /\ (cacheTtl < 0 \/ ~cacheHas) => polled'.code = 404]_vars
  /\ [][puts' # puts => (cacheHas' /\ cacheTtl' = TTL)]_vars

C11_Witness ==
  /\ puts >= 2
  /\ cacheTtl = 1
  /\ polled.code = 200
  /\ polled.body = details

\* the operations whose results handlePatchResponse sends an event for
Notifiable(i) ==
  \/ results[i].kind = "PatchError"
  \/ results[i].kind = "result" /\ results[i].shape \in {"classes", "metadata"}
NotifiableOps == {i \in 1..N : Notifiable(i)}
\* the k-th of them, in the order of the batch
RECURSIVE NthNotifiable(_, _)
NthNotifiable(k, from) ==
  IF Notifiable(from)
  THEN (IF k = 1 THEN from ELSE NthNotifiable(k - 1, from + 1))
  ELSE NthNotifiable(k, from + 1)

\* C12: every event is named from the operation it is published for: its
\* path without the leading '/', then ':', then its op, after 'text:update:'.
C12_EventNamedFromOperation ==
  notified =>
    \A k \in 1..Len(events) :
      events[k].name = <<"text", ":", "update", ":">>
                         \o socketMessageNameBuilder(batch[NthNotifiable(k, 1)])

\* C13: the completion callback publishes one event for every PatchError
\* among its results, carrying the error and in it the original operation,
\* one for every success showing classes or a metadata value, and none for
\* any other success: in the order of the batch, and at most N in all.
C13_OneEventPerNotifiableOutcome ==
  /\ Len(events) <= N
  /\ ~notified => events = <<>>
  /\ notified =>
       /\ Len(events) = Cardinality(NotifiableOps)
       /\ \A k \in 1..Len(events) :
            LET i == NthNotifiable(k, 1)
            IN  /\ events[k].response.id = textid
                /\ results[i].kind = "PatchError" =>
                     /\ events[k].response.error = results[i]
                     /\ events[k].response.error.operation = batch[i]
                /\ results[i].kind = "result" =>
                     /\ events[k].response.error = NoResult
                     /\ events[k].response.field =
                          (IF results[i].shape = "classes" THEN "classes" ELSE "value")

C13_Witness ==
  /\ notified
  /\ N = 3
  /\ Len(events) = 2
  /\ \E i \in 1..N : results[i].kind = "PatchError"
  /\ \E i \in 1..N : results[i].kind = "result" /\ results[i].shape = "neither"
  /\ \E i \in 1..N : results[i].kind = "result" /\ results[i].shape = "metadata"

\* C14 as stated: every event is published before the terminal status is
\* assigned.
C14_EventsBeforeTerminalStatus == [][events' # events => ~Terminal]_vars

\* C14 amended: no event is published when an operation settles; every event
\* is published by the completion callback after it has assigned the
\* terminal status and put the record.
C14_EventsAfterTerminalStatus ==
  /\ [](events # <<>> => (Terminal /\ finished))
  /\ [][results' # results => events' = events]_vars
  /\ [][events' # events => (Terminal /\ finished /\ NumSettled = N)]_vars

C14_Witness ==
  /\ Terminal
  /\ N >= 2
  /\ Len(events) = N

\* the router has no handler for the operation
Unsupported(patchoperation) ==
  \/ patchoperation.path \notin {ClassesPath, MetadataPath}
  \/ patchoperation.path = ClassesPath /\ patchoperation.op \notin {"add", "remove"}
  \/ patchoperation.path = MetadataPath /\ patchoperation.op # "replace"

\* C15: an operation with an unrecognized path, or with an op that is illegal
\* for its path, never has a store call issued for it, and as soon as it is
\* taken its outcome is a PatchError 'Unsupported operation' carrying it.
C15_UnsupportedNeverReachesStore ==
  \A i \in 1..N : Unsupported(batch[i]) =>
    /\ calls[i] = NoCall
    /\ i < next => results[i] = PatchError("Unsupported operation", batch[i])

C15_Witness ==
  /\ \E i \in 1..N : batch[i].path = ClassesPath /\ Unsupported(batch[i]) /\ Settled(i)
  /\ \E i \in 1..N : batch[i].path = MetadataPath /\ Unsupported(batch[i]) /\ Settled(i)

HasStringId(cls) == cls.type = "object" /\ cls.idtype = "string"
\* an add or a remove on /classes with a value list
ClassesEdit(patchoperation) ==
  /\ patchoperation.path = ClassesPath
  /\ patchoperation.op \in {"add", "remove"}
  /\ patchoperation.value.type = "array"

\* C16: for an add or remove on /classes, an element without a string id
\* means no store call and, as soon as the operation is taken, an error
\* outcome; a store call is issued only when every element has one, and it
\* carries the ids of all elements, in order.
C16_AllIdsOrNoCall ==
  \A i \in 1..N : ClassesEdit(batch[i]) =>
    LET items == batch[i].value.items
    IN  /\ (\E k \in 1..Len(items) : ~HasStringId(items[k])) =>
             /\ calls[i] = NoCall
             /\ i < next => results[i] = PatchError("Invalid value array", batch[i])
        /\ calls[i] # NoCall =>
             /\ \A k \in 1..Len(items) : HasStringId(items[k])
             /\ calls[i].ids = [k \in 1..Len(items) |-> items[k].id]
             /\ calls[i].fn = (IF batch[i].op = "add" THEN "addClassesToText"
                               ELSE "removeClassesFromText")

C16_Witness ==
  /\ \E i \in 1..N : /\ ClassesEdit(batch[i])
                     /\ \E k \in 1..Len(batch[i].value.items) : ~HasStringId(batch[i].value.items[k])
                     /\ Settled(i)
  /\ \E i \in 1..N : ClassesEdit(batch[i]) /\ Len(calls[i].ids) = 2

\* C17: every step in which an operation settles makes a cache.put.
C17_EverySettlingPuts == [][results' # results => puts' = puts + 1]_vars

\* C18: under FairSpec, when the record has expired while store calls are
\* outstanding, the batch goes on to its completion, whose put leaves the
\* record in the cache with a terminal status and success + error = N.
C18_CompletesAfterExpiry ==
  (~cacheHas /\ NumInFlight > 0) ~> (cacheHas /\ Terminal /\ Counted = N)

\* C19: mapLimit is never given an error, so the status is never error and
\* the completion callback always assigns complete.
C19_NeverStatusError ==
  /\ ~errored
  /\ details.status # STATUS.ERROR
  /\ finished => details.status = STATUS.COMPLETE

C19_Witness ==
  /\ finished
  /\ details.status = STATUS.COMPLETE
  /\ details.error >= 1
  /\ \E i \in 1..N : results[i] = PatchError("store error", batch[i])

====
